---- MODULE Spec2Model ----
(***************************************************************************)
(* typeorm-scheduler: a table of cronjob rows polled by scheduler          *)
(* instances.  The model follows src/scheduler.ts (kept in                 *)
(* src/tests/tests.ts, lines 195-471): the tick loop, checkNextAndLock,    *)
(* getNextStart and rescheduleSleep, with the store and the clock as the   *)
(* shared environment.                                                     *)
(*                                                                         *)
(* Time: the clock `now` is in milliseconds.  Timestamps kept in the       *)
(* store are what moment().format('X') produces: the decimal string of the *)
(* whole seconds.  Such a string is represented by the number it spells,   *)
(* and every comparison the code makes on the strings (SQL text            *)
(* comparison, JavaScript `<` on two strings) is made digit by digit, as   *)
(* the code makes it.                                                      *)
(***************************************************************************)
EXTENDS Integers, Sequences, FiniteSets, Bags, TLC

\* ---------------------------------------------------------------- bounds
StartSec == 12      \* the clock reads StartSec seconds at construction
ClockStep == 500    \* the clock advances in steps of ClockStep milliseconds
MaxSteps == 4       \* number of clock steps of the horizon
MaxStepsLife == 2   \* clock steps of the horizon of the lifecycle and fault runs
MaxIdleRun == 2     \* onIdle invocations counted between two claims

Chains == {1, 2}    \* tick loops that can be alive at once (over all instances)
Instances == {1, 2} \* scheduler instances sharing the store
RowIds == {1, 2}    \* primary keys of the rows the store is seeded with

NULL == 0 - 1       \* SQL NULL / JavaScript null in a timestamp column
NoInst == 0

T0 == StartSec * 1000
MaxNow == T0 + MaxSteps * ClockStep
MaxNowLife == T0 + MaxStepsLife * ClockStep
Horizon == ((MaxNow \div 1000) + 1) * 1000
LastCall == Horizon + 1000

\* the lockDuration values (milliseconds) a configuration is drawn from
LockDurations == {0, 500, 2000}

\* cron expressions of the seeded rows: none (column NULL), every second,
\* every other second
IntervalNull == "null"
EverySecond == "* * * * * *"
EveryOther == "*/2 * * * * *"

VARIABLES
  now,          \* the clock, in milliseconds
  store,        \* the cronjob table: id -> row, for the rows that exist
  store0,       \* the table as seeded (never changes)
  lockDuration, \* config.lockDuration, milliseconds
  running,      \* Scheduler.running, per instance
  processing,   \* Scheduler.processing, per instance
  idle,         \* Scheduler.idle, per instance
  owner,        \* the instance a tick loop belongs to (NoInst: loop not alive)
  pc,           \* where each tick loop stands
  job,          \* the row returned to the tick by checkNextAndLock
  currentDate,  \* the `currentDate` of the pending checkNextAndLock (line 397)
  lockStamp,    \* the lock value of the pending checkNextAndLock (line 396)
  issued,       \* the second getNextStart read for the pending rescheduleSleep
  stopPc,       \* where each instance's stop() call stands
  claimed,      \* history: bag of <<row id, currentDate>> of the claims made
  late,         \* history: some claim outlived its lock, or a callback raised
  torn,         \* history: some lock was written to a row changed since read
  lastEmpty,    \* history: the instance's latest claim attempt found no row
  idleRun,      \* history: onIdle invocations since the instance's last claim
  stopCall      \* the promise of the stop() call made by the user

vars == <<now, store, store0, lockDuration, running, processing, idle, owner,
          pc, job, currentDate, lockStamp, issued, stopPc, claimed, late,
          torn, lastEmpty, idleRun, stopCall>>

\* ------------------------------------------------------- time and strings

\* moment(ms).format('X'): whole seconds since the epoch
FormatX(ms) == ms \div 1000

\* moment(x, 'X'): the instant of a seconds timestamp, in milliseconds
ParseX(x) == x * 1000

\* the decimal digits of a natural number, most significant first
RECURSIVE Digits(_)
Digits(n) == IF n < 10 THEN <<n>> ELSE Append(Digits(n \div 10), n % 10)

\* lexicographic order on digit strings (a proper prefix comes first)
RECURSIVE LexLess(_, _)
LexLess(a, b) ==
  IF b = <<>> THEN FALSE
  ELSE IF a = <<>> THEN TRUE
  ELSE IF Head(a) # Head(b) THEN Head(a) < Head(b)
  ELSE LexLess(Tail(a), Tail(b))

\* `a < b` on two timestamp strings
StrLess(a, b) == LexLess(Digits(a), Digits(b))

\* ------------------------------------------------------------- the store

\* a row as findOne returns it
Row(id, r) ==
  [id |-> id, sleepUntil |-> r.sleepUntil, interval |-> r.interval,
   repeatUntil |-> r.repeatUntil, autoRemove |-> r.autoRemove]

\* checkNextAndLock found nothing (undefined)
NoJob ==
  [id |-> 0, sleepUntil |-> NULL, interval |-> IntervalNull,
   repeatUntil |-> NULL, autoRemove |-> FALSE]

\* mutant of Update: the update is not restricted to the row's id
UpdateEvery(st, id, v) == [r \in DOMAIN st |-> [st[r] EXCEPT !.sleepUntil = v]]

\* repository.update(id, {sleepUntil: v}): no effect when the row is gone
Update(st, id, v) ==
  IF id \in DOMAIN st THEN [st EXCEPT ![id].sleepUntil = v] ELSE st

\* repository.delete(id)
Delete(st, id) == [r \in DOMAIN st \ {id} |-> st[r]]

\* mutant of LessThan: LessThanOrEqual
LessThanOrEqual(v, x) == v # NULL /\ (v = x \/ StrLess(v, x))

\* SQL `col < :x` on a text column: never true of NULL
LessThan(v, x) == v # NULL /\ StrLess(v, x)

\* the `where` object of findOne: both conditions are written under the same
\* key, so the object holds the second one alone, LessThan(currentDate)
Where(r, cur) == LessThan(r.sleepUntil, cur)

\* mutant of Due: findOne only ever looks at the row with the lowest id
DueLowest(st, cur) ==
  {id \in DOMAIN st : Where(st[id], cur) /\ \A q \in DOMAIN st : id <= q}

\* the rows findOne may return
Due(st, cur) == {id \in DOMAIN st : Where(st[id], cur)}

\* moment().add(lockDuration, 'milliseconds').format('X')
LockValue(t, d) == FormatX(t + d)

\* mutant of CurrentDate: the clock is read one hour ahead
CurrentDateAhead(t) == FormatX(t + 3600000)

\* moment().format('X')
CurrentDate(t) == FormatX(t)

\* ------------------------------------------------------------ recurrence

intervalFieldPath == "interval"

\* seconds between two occurrences of a cron expression; 0: does not parse
Period(expr) ==
  IF expr = EverySecond THEN 1 ELSE IF expr = EveryOther THEN 2 ELSE 0

\* parser.parseExpression(expr, {currentDate, endDate}).next(): the first
\* occurrence after currentDate (milliseconds), or NULL when the parser
\* raises: expression not parsable, or the occurrence lies after endDate
CronNext(expr, cur, endDate) ==
  IF Period(expr) = 0 THEN NULL
  ELSE LET p == Period(expr) * 1000
           cand == ((cur \div p) + 1) * p
       IN IF endDate # NULL /\ cand > endDate THEN NULL ELSE cand

\* mutant of getNextStart: the next occurrence is returned as it is, in the
\* past or not
getNextStartNoClamp(j, t) ==
  IF intervalFieldPath = "" THEN NULL
  ELSE LET cand == CronNext(j.interval, ParseX(j.sleepUntil), j.repeatUntil)
       IN IF cand = NULL THEN NULL ELSE FormatX(cand)

\* mutant of getNextStart: repeatUntil is not handed to the parser
getNextStartNoEnd(j, t) ==
  IF intervalFieldPath = "" THEN NULL
  ELSE LET cand == CronNext(j.interval, ParseX(j.sleepUntil), NULL)
       IN IF cand = NULL THEN NULL
          ELSE IF StrLess(FormatX(cand), FormatX(t)) THEN FormatX(t)
          ELSE FormatX(cand)

\* mutant of getNextStart: the earlier of next occurrence and current time
getNextStartEarlier(j, t) ==
  IF intervalFieldPath = "" THEN NULL
  ELSE LET cand == CronNext(j.interval, ParseX(j.sleepUntil), j.repeatUntil)
       IN IF cand = NULL THEN NULL
          ELSE IF StrLess(FormatX(cand), FormatX(t)) THEN FormatX(cand)
          ELSE FormatX(t)

\* Scheduler.getNextStart(job), called at clock value t
getNextStart(j, t) ==
  IF intervalFieldPath = "" THEN NULL
  ELSE LET available == ParseX(j.sleepUntil)
           future == available
           cand == CronNext(j.interval, future, j.repeatUntil)
       IN IF cand = NULL THEN NULL
          ELSE LET next == FormatX(cand)
                   n == FormatX(t)
               IN IF StrLess(next, n) THEN n ELSE next

\* mutant of rescheduleSleep: an expired row is left as it is
rescheduleSleepKeep(st, j, t) ==
  LET nextStart == getNextStart(j, t)
  IN IF nextStart = NULL THEN st ELSE Update(st, j.id, nextStart)

\* mutant of rescheduleSleep: autoRemove is not looked at
rescheduleSleepNoRemove(st, j, t) == Update(st, j.id, getNextStart(j, t))

\* mutant of rescheduleSleep: an autoRemove row is deleted after every run
rescheduleSleepEager(st, j, t) ==
  LET nextStart == getNextStart(j, t)
  IN IF j.autoRemove THEN Delete(st, j.id)
     ELSE IF nextStart = NULL THEN Update(st, j.id, NULL)
     ELSE Update(st, j.id, nextStart)

\* Scheduler.rescheduleSleep(job) with the clock read at t: the store after
\* its write
rescheduleSleep(st, j, t) ==
  LET nextStart == getNextStart(j, t)
  IN IF nextStart = NULL /\ j.autoRemove THEN Delete(st, j.id)
     ELSE IF nextStart = NULL THEN Update(st, j.id, NULL)
     ELSE Update(st, j.id, nextStart)

\* ------------------------------------------------------------ seeded rows

PastSec == StartSec - 2
FutureSec == StartSec + 1
UntilMs == T0 + 1500

NewRow(s, i, u, a) ==
  [sleepUntil |-> s, interval |-> i, repeatUntil |-> u, autoRemove |-> a]

OneShot == NewRow(PastSec, IntervalNull, NULL, FALSE)
OneShotRemove == NewRow(PastSec, IntervalNull, NULL, TRUE)
Inert == NewRow(NULL, IntervalNull, NULL, FALSE)
Deferred == NewRow(FutureSec, IntervalNull, NULL, FALSE)
Recurring == NewRow(PastSec, EverySecond, NULL, FALSE)
RecurringOther == NewRow(PastSec, EveryOther, NULL, TRUE)
Bounded == NewRow(PastSec, EverySecond, UntilMs, FALSE)
BoundedRemove == NewRow(PastSec, EveryOther, UntilMs, TRUE)

\* tables with one row that is armed at construction
SeedsOne ==
  { <<OneShot, Inert>>, <<OneShotRemove, Inert>>, <<Deferred, Inert>>,
    <<Recurring, Inert>>, <<Bounded, Inert>>, <<BoundedRemove, Inert>> }

\* tables with two rows that are armed at construction
SeedsTwo ==
  { <<Recurring, OneShot>>, <<BoundedRemove, RecurringOther>>,
    <<OneShot, OneShotRemove>>, <<OneShotRemove, Deferred>> }

\* the tables the model starts from: rows 1 and 2 as inserted by a producer
Seeds == SeedsOne \cup SeedsTwo

\* ------------------------------------------------------------------ state

First(S) == CHOOSE x \in S : \A y \in S : x <= y

\* the loops that are over: returned ("none") or rejected ("rejected")
FreeChains == {c \in Chains : pc[c] \in {"none", "rejected"}}

\* the tick holds a claimed row: from checkNextAndLock's return to the end of
\* the awaited rescheduleSleep
InFlight(c) == pc[c] \in {"onNewJob", "resched", "written"}

\* chain c has a row in hand: read by its findOne, or returned to its tick
Taken(c) == pc[c] \in {"found", "locked"} \/ InFlight(c)

\* a lock value no longer keeps the row from being found at clock value t
Elapsed(lock, t) == LessThan(lock, CurrentDate(t))

Init ==
  /\ now = T0
  /\ store \in Seeds
  /\ store0 = store
  /\ lockDuration \in LockDurations
  /\ running = [i \in Instances |-> FALSE]
  /\ processing = [i \in Instances |-> FALSE]
  /\ idle = [i \in Instances |-> FALSE]
  /\ owner = [c \in Chains |-> NoInst]
  /\ pc = [c \in Chains |-> "none"]
  /\ job = [c \in Chains |-> NoJob]
  /\ currentDate = [c \in Chains |-> 0]
  /\ lockStamp = [c \in Chains |-> 0]
  /\ issued = [c \in Chains |-> 0]
  /\ stopPc = [i \in Instances |-> "none"]
  /\ claimed = EmptyBag
  /\ late = FALSE
  /\ torn = FALSE
  /\ lastEmpty = [i \in Instances |-> FALSE]
  /\ idleRun = [i \in Instances |-> 0]
  /\ stopCall = [i \in Instances |-> "none"]

\* the tick returns without scheduling a successor: the loop is over
EndLoop(c) ==
  /\ pc' = [pc EXCEPT ![c] = "none"]
  /\ owner' = [owner EXCEPT ![c] = NoInst]

\* a hook raised outside a try block: the promise of start() or tick()
\* rejects and nothing is scheduled after it
Reject(c) ==
  /\ pc' = [pc EXCEPT ![c] = "rejected"]
  /\ owner' = [owner EXCEPT ![c] = NoInst]

\* ---------------------------------------------------------------- start()

\* start() on a stopped instance, up to `await onStart`
Start(i) ==
  /\ ~running[i]
  /\ FreeChains # {}
  /\ running' = [running EXCEPT ![i] = TRUE]
  /\ pc' = [pc EXCEPT ![First(FreeChains)] = "onStart"]
  /\ owner' = [owner EXCEPT ![First(FreeChains)] = i]
  /\ UNCHANGED <<now, store, store0, lockDuration, processing, idle, job,
                 currentDate, lockStamp, issued, stopPc, claimed, late,
                 torn, lastEmpty, idleRun, stopCall>>

\* onStart returned: process.nextTick(tick)
OnStartDone(c) ==
  /\ pc[c] = "onStart"
  /\ pc' = [pc EXCEPT ![c] = "scheduled"]
  /\ UNCHANGED <<now, store, store0, lockDuration, running, processing, idle,
                 owner, job, currentDate, lockStamp, issued, stopPc, claimed,
                 late, torn, lastEmpty, idleRun, stopCall>>

\* onStart raised: start() rejects, no tick is scheduled, running stays set
OnStartRaise(c) ==
  /\ pc[c] = "onStart"
  /\ Reject(c)
  /\ UNCHANGED <<now, store, store0, lockDuration, running, processing, idle,
                 job, currentDate, lockStamp, issued, stopPc, claimed, late,
                 torn, lastEmpty, idleRun, stopCall>>

\* ----------------------------------------------------------------- tick()

\* tick() entered: first running check, then sleep(nextDelay)
TickEnter(c) ==
  /\ pc[c] = "scheduled"
  /\ IF running[owner[c]]
       THEN pc' = [pc EXCEPT ![c] = "nextDelay"] /\ owner' = owner
       ELSE EndLoop(c)
  /\ UNCHANGED <<now, store, store0, lockDuration, running, processing, idle,
                 job, currentDate, lockStamp, issued, stopPc, claimed, late,
                 torn, lastEmpty, idleRun, stopCall>>

\* a claim in flight has outlived its lock, or a callback has raised, by the
\* time the clock reads t
Lapsed(t) ==
  late \/ \E c \in Chains : InFlight(c) /\ Elapsed(lockStamp[c], t)

\* the clock values the second read of the clock (line 397) can return when
\* the first (line 396) returned `now`: the same, or the next one when the
\* clock moved on between the two reads
LaterReads(end) == {now} \cup (IF now < end THEN {now + ClockStep} ELSE {})

\* mutant of TickWakeUntil: running is not checked again after the sleep
TickWakeBlind(c, end) ==
  /\ pc[c] = "nextDelay"
  /\ pc' = [pc EXCEPT ![c] = "txn"]
  /\ processing' = [processing EXCEPT ![owner[c]] = TRUE]
  /\ lockStamp' = [lockStamp EXCEPT ![c] = LockValue(now, lockDuration)]
  /\ \E t \in LaterReads(end) :
       /\ now' = t
       /\ currentDate' = [currentDate EXCEPT ![c] = CurrentDate(t)]
       /\ late' = Lapsed(t)
  /\ UNCHANGED <<store, store0, lockDuration, running, idle, owner, job,
                 issued, stopPc, claimed, torn, lastEmpty, idleRun, stopCall>>

\* nextDelay over: second running check, processing = true, and the call of
\* checkNextAndLock, which reads the clock twice before its transaction
\* starts, first for the lock value and then for currentDate, and then
\* awaits findOne; the clock is not read beyond `end`
TickWakeUntil(c, end) ==
  /\ pc[c] = "nextDelay"
  /\ IF running[owner[c]]
       THEN /\ pc' = [pc EXCEPT ![c] = "txn"]
            /\ owner' = owner
            /\ processing' = [processing EXCEPT ![owner[c]] = TRUE]
            /\ lockStamp' =
                 [lockStamp EXCEPT ![c] = LockValue(now, lockDuration)]
            /\ \E t \in LaterReads(end) :
                 /\ now' = t
                 /\ currentDate' = [currentDate EXCEPT ![c] = CurrentDate(t)]
                 /\ late' = Lapsed(t)
       ELSE /\ EndLoop(c)
            /\ UNCHANGED <<now, late, torn, processing, currentDate, lockStamp>>
  /\ UNCHANGED <<store, store0, lockDuration, running, idle, job,
                 issued, stopPc, claimed, torn, lastEmpty, idleRun, stopCall>>

\* the tick of a run whose clock is followed up to MaxNow
TickWake(c) == TickWakeUntil(c, MaxNow)

\* the tick of a run whose clock is followed up to MaxNowLife
TickWakeLife(c) == TickWakeUntil(c, MaxNowLife)

\* findOne returned row id as the store holds it: origJob; the update that
\* locks it is awaited next
Claim(c, id) ==
  /\ job' = [job EXCEPT ![c] = Row(id, store[id])]
  /\ pc' = [pc EXCEPT ![c] = "found"]

\* the store answers the findOne of checkNextAndLock's transaction; findOne
\* has no order, so any of the rows that match may be the one returned; when
\* none matches, the transaction ends and checkNextAndLock resolves with
\* undefined, which tick() takes up in a later turn of the event loop
Transaction(c) ==
  /\ pc[c] = "txn"
  /\ IF Due(store, currentDate[c]) = {}
       THEN pc' = [pc EXCEPT ![c] = "empty"] /\ job' = job
       ELSE \E id \in Due(store, currentDate[c]) : Claim(c, id)
  /\ UNCHANGED <<now, store, store0, lockDuration, running, processing, idle,
                 owner, currentDate, lockStamp, issued, stopPc, claimed, late,
                 torn, lastEmpty, idleRun, stopCall>>

\* the empty tick: processing = false, idle = true, onIdle if `invoke`
GoIdle(c, invoke) ==
  /\ pc[c] = "empty"
  /\ processing' = [processing EXCEPT ![owner[c]] = FALSE]
  /\ idle' = [idle EXCEPT ![owner[c]] = TRUE]
  /\ pc' = [pc EXCEPT ![c] = IF invoke THEN "onIdle" ELSE "idleDelay"]
  /\ currentDate' = [currentDate EXCEPT ![c] = 0]
  /\ lockStamp' = [lockStamp EXCEPT ![c] = 0]
  /\ lastEmpty' = [lastEmpty EXCEPT ![owner[c]] = TRUE]
  /\ idleRun' =
       [idleRun EXCEPT ![owner[c]] =
          IF invoke /\ @ < MaxIdleRun THEN @ + 1 ELSE @]
  /\ UNCHANGED <<now, store, store0, lockDuration, running, owner, job,
                 issued, stopPc, claimed, late, torn, stopCall>>

\* mutant of NoClaim: onIdle on every empty tick
NoClaimEveryTick(c) == GoIdle(c, TRUE)

\* tick() continues with no job: processing = false, and onIdle on the first
\* empty tick since the last job, else straight to sleep(idleDelay)
NoClaim(c) == GoIdle(c, ~idle[owner[c]])

\* the update of chain c finds the row as its findOne read it: nothing was
\* written to the row between the select and the update of the transaction
Atomic(c) ==
  /\ job[c].id \in DOMAIN store
  /\ store[job[c].id].sleepUntil = job[c].sleepUntil

\* mutant of Lock: the row is returned as it reads after the lock was written
LockReread(c) ==
  /\ pc[c] = "found"
  /\ store' = Update(store, job[c].id, lockStamp[c])
  /\ job' = [job EXCEPT ![c] =
               IF job[c].id \in DOMAIN store'
                 THEN Row(job[c].id, store'[job[c].id]) ELSE job[c]]
  /\ pc' = [pc EXCEPT ![c] = "locked"]
  /\ torn' = (torn \/ ~Atomic(c))
  /\ UNCHANGED <<now, store0, lockDuration, running, processing, idle, owner,
                 currentDate, lockStamp, issued, stopPc, claimed, late,
                 lastEmpty, idleRun, stopCall>>

\* the update that locks origJob.id takes effect in the table, whatever the
\* row reads by now (no row is written when it is gone); the transaction ends and
\* checkNextAndLock resolves with origJob as read, which tick() takes up in a
\* later turn of the event loop
Lock(c) ==
  /\ pc[c] = "found"
  /\ store' = Update(store, job[c].id, lockStamp[c])
  /\ pc' = [pc EXCEPT ![c] = "locked"]
  /\ torn' = (torn \/ ~Atomic(c))
  /\ UNCHANGED <<now, store0, lockDuration, running, processing, idle, owner,
                 job, currentDate, lockStamp, issued, stopPc, claimed, late,
                 lastEmpty, idleRun, stopCall>>

\* tick() continues with the job checkNextAndLock returned: idle = false and
\* onNewJob is called with it
NewJob(c) ==
  /\ pc[c] = "locked"
  /\ idle' = [idle EXCEPT ![owner[c]] = FALSE]
  /\ pc' = [pc EXCEPT ![c] = "onNewJob"]
  /\ claimed' = claimed (+) SetToBag({<<job[c].id, currentDate[c]>>})
  /\ late' = (late \/ Elapsed(lockStamp[c], now))
  /\ lastEmpty' = [lastEmpty EXCEPT ![owner[c]] = FALSE]
  /\ idleRun' = [idleRun EXCEPT ![owner[c]] = 0]
  /\ UNCHANGED <<now, store, store0, lockDuration, running, processing, owner,
                 job, currentDate, lockStamp, issued, stopPc, torn, stopCall>>

\* the transaction raised (the store failed at findOne, at the update or at
\* the commit, as a store does that refuses one of two transactions at work
\* on the table, and no lock reached the table): caught, onError called
ClaimRaise(c) ==
  /\ pc[c] \in {"txn", "found"}
  /\ pc' = [pc EXCEPT ![c] = "onError"]
  /\ job' = [job EXCEPT ![c] = NoJob]
  /\ currentDate' = [currentDate EXCEPT ![c] = 0]
  /\ lockStamp' = [lockStamp EXCEPT ![c] = 0]
  /\ UNCHANGED <<now, store, store0, lockDuration, running, processing, idle,
                 owner, issued, stopPc, claimed, late, torn,
                 lastEmpty, idleRun, stopCall>>

\* onNewJob returned: rescheduleSleep(job) is called, getNextStart reads the
\* clock, and the write it decides on is handed to the store and awaited
JobDone(c) ==
  /\ pc[c] = "onNewJob"
  /\ pc' = [pc EXCEPT ![c] = "resched"]
  /\ issued' = [issued EXCEPT ![c] = FormatX(now)]
  /\ UNCHANGED <<now, store, store0, lockDuration, running, processing, idle,
                 owner, job, currentDate, lockStamp, stopPc, claimed, late,
                 torn, lastEmpty, idleRun, stopCall>>

\* the store executes the write of rescheduleSleep: the update or the delete
\* decided when getNextStart read the clock
StoreWrite(c) ==
  /\ pc[c] = "resched"
  /\ store' = rescheduleSleep(store, job[c], ParseX(issued[c]))
  /\ pc' = [pc EXCEPT ![c] = "written"]
  /\ UNCHANGED <<now, store0, lockDuration, running, processing, idle, owner,
                 job, currentDate, lockStamp, issued, stopPc, claimed, late,
                 torn, lastEmpty, idleRun, stopCall>>

\* the awaited rescheduleSleep resolved: processing = false, next tick
JobEnd(c) ==
  /\ pc[c] = "written"
  /\ processing' = [processing EXCEPT ![owner[c]] = FALSE]
  /\ pc' = [pc EXCEPT ![c] = "scheduled"]
  /\ job' = [job EXCEPT ![c] = NoJob]
  /\ currentDate' = [currentDate EXCEPT ![c] = 0]
  /\ lockStamp' = [lockStamp EXCEPT ![c] = 0]
  /\ issued' = [issued EXCEPT ![c] = 0]
  /\ UNCHANGED <<now, store, store0, lockDuration, running, idle, owner,
                 stopPc, claimed, late, torn, lastEmpty, idleRun, stopCall>>

\* onNewJob raised, or the write of rescheduleSleep failed in the store:
\* caught, onError called; the row keeps its lock and processing stays set
JobRaise(c) ==
  /\ pc[c] \in {"onNewJob", "resched"}
  /\ pc' = [pc EXCEPT ![c] = "onError"]
  /\ job' = [job EXCEPT ![c] = NoJob]
  /\ currentDate' = [currentDate EXCEPT ![c] = 0]
  /\ lockStamp' = [lockStamp EXCEPT ![c] = 0]
  /\ issued' = [issued EXCEPT ![c] = 0]
  /\ late' = TRUE
  /\ UNCHANGED <<now, store, store0, lockDuration, running, processing, idle,
                 owner, stopPc, claimed, torn,
                 lastEmpty, idleRun, stopCall>>

\* onIdle returned: sleep(idleDelay)
OnIdleDone(c) ==
  /\ pc[c] = "onIdle"
  /\ pc' = [pc EXCEPT ![c] = "idleDelay"]
  /\ UNCHANGED <<now, store, store0, lockDuration, running, processing, idle,
                 owner, job, currentDate, lockStamp, issued, stopPc, claimed,
                 late, torn, lastEmpty, idleRun, stopCall>>

\* onIdle raised: caught, onError called
OnIdleRaise(c) ==
  /\ pc[c] = "onIdle"
  /\ pc' = [pc EXCEPT ![c] = "onError"]
  /\ UNCHANGED <<now, store, store0, lockDuration, running, processing, idle,
                 owner, job, currentDate, lockStamp, issued, stopPc, claimed,
                 late, torn, lastEmpty, idleRun, stopCall>>

\* mutant of NextTick: no tick is scheduled after onError
NextTickStop(c) ==
  /\ pc[c] \in {"idleDelay", "onError"}
  /\ IF pc[c] = "onError"
       THEN EndLoop(c)
       ELSE pc' = [pc EXCEPT ![c] = "scheduled"] /\ owner' = owner
  /\ UNCHANGED <<now, store, store0, lockDuration, running, processing, idle,
                 job, currentDate, lockStamp, issued, stopPc, claimed, late,
                 torn, lastEmpty, idleRun, stopCall>>

\* idleDelay over, or onError returned: process.nextTick(() => this.tick())
NextTick(c) ==
  /\ pc[c] \in {"idleDelay", "onError"}
  /\ pc' = [pc EXCEPT ![c] = "scheduled"]
  /\ UNCHANGED <<now, store, store0, lockDuration, running, processing, idle,
                 owner, job, currentDate, lockStamp, issued, stopPc, claimed,
                 late, torn, lastEmpty, idleRun, stopCall>>

\* onError raised inside the catch block: tick() rejects, no next tick
OnErrorRaise(c) ==
  /\ pc[c] = "onError"
  /\ Reject(c)
  /\ UNCHANGED <<now, store, store0, lockDuration, running, processing, idle,
                 job, currentDate, lockStamp, issued, stopPc, claimed, late,
                 torn, lastEmpty, idleRun, stopCall>>

\* ----------------------------------------------------------------- stop()

\* the body of stop(): running = false, then sleep(300) while a tick is
\* processing, else onStop
StopBody(i) ==
  /\ running' = [running EXCEPT ![i] = FALSE]
  /\ stopPc' = [stopPc EXCEPT ![i] = IF processing[i] THEN "sleep" ELSE "onStop"]
  /\ UNCHANGED <<now, store, store0, lockDuration, processing, idle, owner,
                 pc, job, currentDate, lockStamp, issued, claimed, late, torn,
                 lastEmpty, idleRun>>

\* stop() called by the user: the call's promise is pending
Stop(i) ==
  /\ stopPc[i] = "none"
  /\ StopBody(i)
  /\ stopCall' = [stopCall EXCEPT ![i] = "pending"]

\* the 300 ms are over: `return process.nextTick(this.stop.bind(this))`
\* queues another stop() and resolves the promise of the call that slept;
\* whoever awaited that call continues before the queued stop() runs
StopRetry(i) ==
  /\ stopPc[i] = "sleep"
  /\ stopPc' = [stopPc EXCEPT ![i] = "queued"]
  /\ stopCall' = [stopCall EXCEPT ![i] = "none"]
  /\ UNCHANGED <<now, store, store0, lockDuration, running, processing, idle,
                 owner, pc, job, currentDate, lockStamp, issued, claimed,
                 late, torn, lastEmpty, idleRun>>

\* the queued stop() runs, on its own: the body of stop() once more
StopAgain(i) ==
  /\ stopPc[i] = "queued"
  /\ StopBody(i)
  /\ UNCHANGED stopCall

\* onStop returned or raised: the stop() that awaited it is over
OnStopDone(i) ==
  /\ stopPc[i] = "onStop"
  /\ stopPc' = [stopPc EXCEPT ![i] = "none"]
  /\ stopCall' = [stopCall EXCEPT ![i] = "none"]
  /\ UNCHANGED <<now, store, store0, lockDuration, running, processing, idle,
                 owner, pc, job, currentDate, lockStamp, issued, claimed,
                 late, torn, lastEmpty, idleRun>>

\* ------------------------------------------------------------------ clock

\* time passes
Advance ==
  /\ now' = now + ClockStep
  /\ late' = Lapsed(now')
  /\ UNCHANGED <<store, store0, lockDuration, running, processing, idle,
                 owner, pc, job, currentDate, lockStamp, issued, stopPc,
                 claimed, torn, lastEmpty, idleRun, stopCall>>

\* time passes, within the horizon
Clock == now < MaxNow /\ Advance

\* a recurrence with a repeatUntil, in no tick's hands, is armed for a time the
\* clock has not passed yet
Waiting ==
  \E id \in DOMAIN store :
    /\ store[id].repeatUntil # NULL
    /\ store[id].sleepUntil # NULL
    /\ ~Where(store[id], CurrentDate(now))
    /\ \A c \in Chains : ~(Taken(c) /\ job[c].id = id)

\* time passes beyond MaxNow as long as such a row is waiting: the clamp of
\* getNextStart can arm the row for the second the clock is in, so the clock
\* is followed until that second has passed
Overtime == now >= MaxNow /\ now < LastCall /\ Waiting /\ Advance

\* how far the clock of the solo run can be found between the two reads of a
\* checkNextAndLock: up to Horizon, and further while such a row is waiting
SoloEnd == IF Waiting THEN LastCall ELSE Horizon

\* the tick of the solo run
TickWakeSolo(c) == TickWakeUntil(c, SoloEnd)

\* time passes, within the horizon of the lifecycle and fault runs
ClockLife == now < MaxNowLife /\ Advance

\* what the tick loops and the store do once started
Run ==
  \/ \E i \in Instances : Start(i)
  \/ \E c \in Chains : OnStartDone(c)
  \/ \E c \in Chains : TickEnter(c)
  \/ \E c \in Chains : TickWake(c)
  \/ \E c \in Chains : Transaction(c)
  \/ \E c \in Chains : NoClaim(c)
  \/ \E c \in Chains : Lock(c)
  \/ \E c \in Chains : NewJob(c)
  \/ \E c \in Chains : JobDone(c)
  \/ \E c \in Chains : StoreWrite(c)
  \/ \E c \in Chains : JobEnd(c)
  \/ \E c \in Chains : OnIdleDone(c)
  \/ \E c \in Chains : NextTick(c)

\* a step of the store, a callback or a hook raises
Raise ==
  \/ \E c \in Chains : ClaimRaise(c)
  \/ \E c \in Chains : JobRaise(c)

Next == Run \/ Raise \/ Clock

\* the tables and lock durations two instances are explored from: one armed
\* row of each kind; no lock, or a lock of half a second
SeedsRace ==
  { <<OneShot, Inert>>, <<Deferred, Inert>>, <<Recurring, Inert>>,
    <<BoundedRemove, Inert>> }

\* two instances contend for the one row that is due
InitOne == Init /\ store \in SeedsRace /\ lockDuration \in {0, 500}

\* instances 1 and 2 on one store, started once and never stopped; what a
\* stop() or a second loop of one instance adds to the store's history is
\* what a second instance adds
Spec == InitOne /\ [][Next]_vars

\* one instance, started once and kept running, whose store, callbacks and
\* hooks never raise
SoloRun ==
  \/ Start(1)
  \/ OnStartDone(1)
  \/ TickEnter(1)
  \/ TickWakeSolo(1)
  \/ Transaction(1)
  \/ NoClaim(1)
  \/ Lock(1)
  \/ NewJob(1)
  \/ JobDone(1)
  \/ StoreWrite(1)
  \/ JobEnd(1)
  \/ OnIdleDone(1)
  \/ NextTick(1)

Tock == Clock \/ Overtime

\* the event loop runs what is pending, the store answers and timers fire;
\* the clock goes on
FairSolo ==
  Init /\ [][SoloRun \/ Tock]_vars /\ WF_vars(SoloRun) /\ WF_vars(Tock)

\* one instance, started and stopped at will: a start() after a stop() adds a
\* tick loop while the earlier one may still be alive; everything may raise
Life ==
  \/ Start(1)
  \/ Stop(1)
  \/ StopRetry(1)
  \/ StopAgain(1)
  \/ OnStopDone(1)
  \/ \E c \in Chains : OnStartDone(c)
  \/ \E c \in Chains : OnStartRaise(c)
  \/ \E c \in Chains : TickEnter(c)
  \/ \E c \in Chains : TickWakeLife(c)
  \/ \E c \in Chains : Transaction(c)
  \/ \E c \in Chains : NoClaim(c)
  \/ \E c \in Chains : Lock(c)
  \/ \E c \in Chains : NewJob(c)
  \/ \E c \in Chains : JobDone(c)
  \/ \E c \in Chains : StoreWrite(c)
  \/ \E c \in Chains : JobEnd(c)
  \/ \E c \in Chains : OnIdleDone(c)
  \/ \E c \in Chains : OnIdleRaise(c)
  \/ \E c \in Chains : NextTick(c)
  \/ \E c \in Chains : OnErrorRaise(c)

\* the tables and lock durations the lifecycle is explored from
SeedsLife == { <<Recurring, Inert>>, <<OneShotRemove, Deferred>> }

InitLife == Init /\ store \in SeedsLife /\ lockDuration \in {0, 2000}

SpecLife == InitLife /\ [][Life \/ Raise \/ ClockLife]_vars

\* a step of tick loop c whose hook returns or whose store answers, in a run
\* whose clock is followed up to MaxNowLife
LoopGoes(c) ==
  \/ OnStartDone(c)
  \/ TickEnter(c)
  \/ TickWakeLife(c)
  \/ Transaction(c)
  \/ NoClaim(c)
  \/ Lock(c)
  \/ NewJob(c)
  \/ JobDone(c)
  \/ StoreWrite(c)
  \/ JobEnd(c)
  \/ OnIdleDone(c)
  \/ NextTick(c)

\* a step of a stop() under way on instance i
StopGoes(i) == StopRetry(i) \/ StopAgain(i) \/ OnStopDone(i)

\* what the event loop of instance 1 runs by itself once it is pending
LifeSteps == (\E c \in Chains : LoopGoes(c)) \/ StopGoes(1)

\* one instance started and stopped at the user's will; onStart, onIdle,
\* onError and onStop return, onNewJob and the store return or raise; every
\* timer fires and every pending continuation runs, of each tick loop and of
\* stop()
FairLife ==
  InitLife /\ [][Start(1) \/ Stop(1) \/ LifeSteps \/ Raise \/ ClockLife]_vars
    /\ \A c \in Chains : WF_vars(LoopGoes(c))
    /\ WF_vars(StopGoes(1))

\* ----------------------------------------------------------------- faults

\* the process of instance i dies mid-processing, while onNewJob runs and
\* before rescheduleSleep: its loops stop where they stand and never take
\* another step; what the loop held (job, currentDate, lockStamp) is kept as
\* the record of its last claim, and the row it had locked stays as it is in
\* the store
Die(i) ==
  /\ \E c \in Chains : owner[c] = i /\ pc[c] = "onNewJob"
  /\ pc' = [c \in Chains |-> IF owner[c] = i THEN "dead" ELSE pc[c]]
  /\ UNCHANGED <<now, store, store0, lockDuration, running, processing, idle,
                 owner, job, currentDate, lockStamp, issued, stopPc, claimed,
                 late, torn, lastEmpty, idleRun, stopCall>>

\* a step of tick loop c, with hooks that return; onNewJob may raise
LoopStep(c) == LoopGoes(c) \/ JobRaise(c)

\* instance 1: started once, runs at its own pace, may die mid-processing
Mortal == Start(1) \/ Die(1) \/ \E c \in Chains : owner[c] = 1 /\ LoopStep(c)

\* instance 2: started once and kept running
Survivor == Start(2) \/ \E c \in Chains : owner[c] = 2 /\ LoopStep(c)

\* the tables the faults are explored from: no row recurs without end
SeedsFaults == { <<OneShot, Inert>>, <<Bounded, Inert>> }

\* the lock elapses at once, or not before the horizon
InitFaults == Init /\ store \in SeedsFaults /\ lockDuration \in {0, 2000}

\* two instances on one store; instance 1 may die, instance 2 keeps running:
\* its event loop runs what is pending and its timers fire; the clock goes on
FairFaults ==
  InitFaults /\ [][Mortal \/ Survivor \/ ClockLife]_vars
    /\ WF_vars(Survivor) /\ WF_vars(ClockLife)

\* ------------------------------------------------------------------ claims

\* number of times row r was returned by checkNextAndLock, which is the
\* number of onNewJob invocations for it
Calls(r) ==
  LET E == {e \in BagToSet(claimed) : e[1] = r}
  IN BagCardinality([e \in E |-> CopiesIn(e, claimed)])

\* chain c's findOne is answered in this step
Committed(c) == pc[c] = "txn" /\ pc'[c] \in {"found", "empty"}

\* the lock write of chain c's checkNextAndLock reaches the store in this step
Locked(c) == pc[c] = "found" /\ pc'[c] = "locked"

\* chain c's tick is returned a row by checkNextAndLock in this step and
\* calls onNewJob with it
Found(c) == pc[c] = "locked" /\ pc'[c] = "onNewJob"

\* chain c's rescheduleSleep is called in this step: getNextStart reads the
\* clock
Issued(c) == pc[c] = "onNewJob" /\ pc'[c] = "resched"

\* the write of chain c's rescheduleSleep reaches the store in this step
Rescheduled(c) == pc[c] = "resched" /\ pc'[c] = "written"

\* row r was seeded due: dueAt set and in the past
SeededDue(r) ==
  store0[r].sleepUntil # NULL /\ ParseX(store0[r].sleepUntil) < T0

\* chain c has been returned a row by its checkNextAndLock: the lock write is
\* done and the tick has the row
Returned(c) == pc[c] = "locked" \/ InFlight(c)

\* C1: two concurrent checkNextAndLock calls, each an atomic transaction and
\* evaluated at the same clock value, never both return the row, whatever
\* lockDuration is: as long as every transaction so far was atomic (each
\* update found its row as read), no claim has outlived its lock and no
\* callback has raised, when the update of a call reaches the store and the
\* call is about to return its row, no other call holds that row, returned to
\* it for the same currentDate, unless that other call computed its lock from
\* an earlier second than the currentDate it read (it was not evaluated at
\* one clock value).
C1_Exclusive ==
  [][\A c \in Chains :
      (Locked(c) /\ ~torn' /\ ~late) =>
        \A d \in Chains \ {c} :
          (Returned(d) /\ job[d].id = job[c].id
             /\ currentDate[d] = currentDate[c]) =>
            lockStamp[d] < currentDate[d]]_vars

\* C1 witness: with lockDuration 0, one call has been returned the single due
\* row, which carries its lock, and the other call, which read the same
\* currentDate, has been answered that no row is due.
C1_Witness ==
  \E c, d \in Chains :
    /\ c # d /\ lockDuration = 0 /\ ~late /\ ~torn
    /\ Returned(d) /\ job[d].id \in DOMAIN store
    /\ SeededDue(job[d].id)
    /\ store[job[d].id].sleepUntil = lockStamp[d]
    /\ pc[c] = "empty" /\ currentDate[c] = currentDate[d]

\* C2 as stated: as long as no claim has outlived its lock and no callback
\* has raised, no two ticks hold the same row between claim and the end of
\* rescheduleSleep.
C2_Original ==
  ~late =>
    \A c, d \in Chains :
      (c # d /\ InFlight(c) /\ InFlight(d)) => job[c].id # job[d].id

\* C4: a row read by findOne, returned by checkNextAndLock or held by a tick
\* had a dueAt the clock had reached: no row is returned or passed to
\* onNewJob before its dueAt.
C4_NotBeforeDue ==
  \A c \in Chains :
    Taken(c) =>
      /\ job[c].sleepUntil # NULL
      /\ ParseX(job[c].sleepUntil) <= now
      /\ job[c].sleepUntil < currentDate[c]

\* C4 witness: the row seeded with a dueAt in the future is held by a tick.
C4_Witness ==
  \E c \in Chains :
    InFlight(c) /\ store0[job[c].id].sleepUntil = FutureSec
      /\ job[c].sleepUntil = FutureSec

\* row r was seeded as a one-shot job: no interval
SeededOneShot(r) == SeededDue(r) /\ store0[r].interval = IntervalNull

\* row r was seeded as a recurring job
SeededRecurring(r) == SeededDue(r) /\ Period(store0[r].interval) > 0

\* no row of the table recurs without end
NoEndless ==
  \A r \in RowIds :
    store0[r].interval = IntervalNull \/ store0[r].repeatUntil # NULL

\* a tick holds row r
Held(r) == \E c \in Chains : InFlight(c) /\ job[c].id = r

\* row r has been through a processing cycle and none is under way
Processed(r) == Calls(r) >= 1 /\ ~Held(r)

\* row r exists with dueAt null
IsNull(r) == r \in DOMAIN store /\ store[r].sleepUntil = NULL

\* C3: a due one-shot row without autoRemove, on one running scheduler whose
\* callbacks succeed: onNewJob is never invoked twice for it, after its
\* processing cycle its dueAt is null, and in the end it has been invoked
\* exactly once and dueAt is null for good (the latter in a table where no
\* other row recurs without end).
C3_OneShotOnce ==
  \A r \in RowIds :
    /\ []((SeededOneShot(r) /\ ~store0[r].autoRemove) =>
            (Calls(r) <= 1 /\ (Processed(r) => IsNull(r))))
    /\ <>[]((SeededOneShot(r) /\ ~store0[r].autoRemove /\ NoEndless) =>
              (Calls(r) = 1 /\ IsNull(r)))

\* C3 witness: the one-shot row was passed to onNewJob once and reads null.
C3_Witness ==
  \E r \in RowIds :
    /\ SeededOneShot(r) /\ ~store0[r].autoRemove
    /\ Calls(r) = 1 /\ Processed(r) /\ IsNull(r)
    /\ now > T0

\* C6: a due one-shot row with autoRemove, once processed by the scheduler,
\* is no longer in the store, and onNewJob was invoked for it exactly once.
C6_AutoRemove ==
  \A r \in RowIds :
    (SeededOneShot(r) /\ store0[r].autoRemove /\ Processed(r)) =>
      (r \notin DOMAIN store /\ Calls(r) = 1)

\* C6 witness: the autoRemove row has been processed and is gone.
C6_Witness ==
  \E r \in RowIds :
    /\ SeededOneShot(r) /\ store0[r].autoRemove
    /\ Processed(r) /\ r \notin DOMAIN store

\* C8: a recurring row with a repeatUntil and without autoRemove, on one
\* scheduler that keeps running (in a table where no other row recurs
\* without end): in the end its dueAt is null for good, and once it is null
\* it stays null and onNewJob is not invoked for it again.
C8_BoundedEnds ==
  /\ \A r \in RowIds :
       <>[]((SeededRecurring(r) /\ store0[r].repeatUntil # NULL
              /\ ~store0[r].autoRemove /\ NoEndless) => IsNull(r))
  /\ [][\A r \in RowIds :
          (SeededRecurring(r) /\ store0[r].repeatUntil # NULL /\ IsNull(r))
            => (IsNull(r)' /\ Calls(r)' = Calls(r))]_vars

\* C8 witness: the row was run more than twice and now reads null.
C8_Witness ==
  \E r \in RowIds :
    /\ SeededRecurring(r) /\ store0[r].repeatUntil # NULL
    /\ ~store0[r].autoRemove
    /\ Calls(r) > 2 /\ IsNull(r)

\* row r is gone or reads null
NullOrGone(r) == r \in DOMAIN store => store[r].sleepUntil = NULL

\* C5 as stated: a row that reads null is not returned and no step makes its
\* dueAt non-null; a row seeded null is never passed to onNewJob, and a due
\* one-shot row exactly once, so never twice (read for runs in which no
\* claim outlives its lock and no callback raises).
C5_Original ==
  /\ [](\A c \in Chains : Taken(c) => job[c].sleepUntil # NULL)
  /\ [](\A r \in RowIds :
          store0[r].sleepUntil = NULL => (Calls(r) = 0 /\ IsNull(r)))
  /\ [](~late => \A r \in RowIds : SeededOneShot(r) => Calls(r) <= 1)
  /\ [][~late' =>
          \A r \in RowIds :
            IsNull(r) => (Calls(r)' = Calls(r) /\ NullOrGone(r)')]_vars

\* C7: a recurring row without repeatUntil is always in the store with a
\* non-null dueAt; the dueAt its rescheduleSleep decides on is not earlier
\* than the second of the clock that rescheduleSleep reads, and it is that
\* dueAt the store is given.
C7_RecurringRearmed ==
  /\ [](\A r \in RowIds :
          (SeededRecurring(r) /\ store0[r].repeatUntil = NULL) =>
            (r \in DOMAIN store /\ store[r].sleepUntil # NULL))
  /\ [][\A c \in Chains :
          (Issued(c) /\ Period(job[c].interval) > 0
             /\ job[c].repeatUntil = NULL) =>
            /\ issued'[c] = FormatX(now)
            /\ getNextStart(job[c], now) # NULL
            /\ getNextStart(job[c], now) >= FormatX(now)]_vars
  /\ [][\A c \in Chains :
          (Rescheduled(c) /\ Period(job[c].interval) > 0
             /\ job[c].repeatUntil = NULL) =>
            /\ job[c].id \in DOMAIN store'
            /\ store'[job[c].id].sleepUntil
                 = getNextStart(job[c], ParseX(issued[c]))
            /\ store'[job[c].id].sleepUntil # NULL
            /\ store'[job[c].id].sleepUntil >= issued[c]]_vars

\* C7 witness: the recurring row has been run more than twice, is held by no
\* tick and is armed for the clock's second or later.
C7_Witness ==
  \E r \in RowIds :
    /\ SeededRecurring(r) /\ store0[r].repeatUntil = NULL
    /\ Calls(r) > 2 /\ ~Held(r)
    /\ store[r].sleepUntil >= FormatX(now)

\* C9 as stated: every dueAt that rescheduleSleep writes for a row with a
\* repeatUntil is strictly earlier than repeatUntil.
C9_Original ==
  [][\A c \in Chains :
      (Rescheduled(c) /\ job[c].repeatUntil # NULL
         /\ job[c].id \in DOMAIN store'
         /\ store'[job[c].id].sleepUntil # NULL) =>
        ParseX(store'[job[c].id].sleepUntil) < job[c].repeatUntil]_vars

\* the rows that are due in the sense of `dueAt non-null and dueAt <= cur`
DueOrNow(st, cur) ==
  {id \in DOMAIN st : st[id].sleepUntil # NULL /\ st[id].sleepUntil <= cur}

\* C10 as stated: findOne returns a row only if its dueAt is non-null and <=
\* the time the call read, and returns such a row whenever one exists.
C10_Original ==
  [][\A c \in Chains :
      Committed(c) =>
        /\ pc'[c] = "found" => job'[c].id \in DueOrNow(store, currentDate[c])
        /\ DueOrNow(store, currentDate[c]) # {} => pc'[c] = "found"]_vars

\* chain c's tick continues in this step after a findOne that found no row
EmptyTick(c) == pc[c] = "empty" /\ pc'[c] \in {"onIdle", "idleDelay"}

\* C11: a tick goes the empty way only when its findOne found no row due;
\* onIdle is invoked only on a tick that found no row while idle was false,
\* and on every such tick; between two onIdle invocations of one instance the
\* instance claimed a row, so a run of empty ticks invokes onIdle once; and
\* idle tells whether the instance's latest completed claim attempt found no
\* row.
C11_IdleEdge ==
  /\ [](\A i \in Instances : idle[i] = lastEmpty[i])
  /\ [](\A i \in Instances : idleRun[i] <= 1)
  /\ [][\A c \in Chains :
          /\ (pc[c] # "empty" /\ pc'[c] = "empty") =>
               (Committed(c) /\ Due(store, currentDate[c]) = {})
          /\ (pc[c] # "onIdle" /\ pc'[c] = "onIdle") =>
               (EmptyTick(c) /\ ~idle[owner[c]])
          /\ (EmptyTick(c) /\ ~idle[owner[c]]) => pc'[c] = "onIdle"]_vars

\* C11 witness: after onIdle was invoked once, a further tick of the instance
\* is at its transaction with no row due, and the instance is still idle.
C11_Witness ==
  \E c \in Chains :
    /\ pc[c] = "txn"
    /\ idle[owner[c]] /\ idleRun[owner[c]] = 1
    /\ Due(store, currentDate[c]) = {}

\* the places of a tick inside its try block
Trying == {"txn", "empty", "found", "locked", "onNewJob", "resched", "written"}

\* C12 as stated: an error raised by checkNextAndLock, onNewJob or
\* rescheduleSleep never ends the loop but is handed to onError, and after
\* onError the next tick is scheduled.
C12_Original ==
  [][\A c \in Chains :
      /\ pc[c] \in Trying => pc'[c] \notin {"none", "rejected"}
      /\ pc[c] = "onError" => pc'[c] \in {"onError", "scheduled"}]_vars

\* C12 amended: an error raised by checkNextAndLock, onNewJob or
\* rescheduleSleep never ends the loop but is handed to onError; when onError
\* returns the next tick is scheduled, and the loop ends after onError only
\* by onError raising itself, which rejects tick() and leaves running and
\* processing as they were.
C12_ErrorsCaught ==
  [][\A c \in Chains :
      /\ pc[c] \in Trying => pc'[c] \notin {"none", "rejected"}
      /\ pc[c] = "onError" =>
           /\ pc'[c] \in {"onError", "scheduled", "rejected"}
           /\ pc'[c] = "rejected" =>
                (running' = running /\ processing' = processing)]_vars

\* C12 witness: onNewJob raised for a one-shot row, which was left locked;
\* the loop, the only one alive, went on and holds the row again.
C12_Witness ==
  \E c \in Chains : \E r \in DOMAIN store :
    /\ InFlight(c) /\ job[c].id = r
    /\ \A d \in Chains \ {c} : pc[d] = "none"
    /\ SeededOneShot(r) /\ Calls(r) = 2
    /\ late

\* the stop() call made by the user completes in this step
StopCompletes(i) == stopCall[i] = "pending" /\ stopCall'[i] = "none"

\* C13 as stated: onStop is invoked only when processing is false, and a
\* stop() call completes only after onStop was invoked, with running and
\* processing false; a call made while a tick is processing does not complete
\* before that.  (Read for stop() calls that no start() has overtaken: when
\* the call completes running is still false.)
C13_Original ==
  [][\A i \in Instances :
      /\ (stopPc[i] # "onStop" /\ stopPc'[i] = "onStop") => ~processing[i]
      /\ (StopCompletes(i) /\ ~running'[i]) =>
           (stopPc[i] = "onStop" /\ ~processing'[i])]_vars

\* C14 as stated: whatever start() and stop() calls are made on an instance,
\* at most one of its ticks is between its claim and the end of its
\* rescheduleSleep, so at most one onNewJob invocation of it is in flight.
C14_Original ==
  \A c, d \in Chains :
    (c # d /\ owner[c] = owner[d] /\ InFlight(c)) => ~InFlight(d)

\* instance i has run, was stopped and is drained: no loop of it is alive,
\* nothing is processing, no stop() is under way
Drained(i) ==
  /\ ~running[i] /\ ~processing[i]
  /\ stopPc[i] = "none"
  /\ \A c \in Chains : owner[c] # i
  /\ BagToSet(claimed) # {}

\* stop() is called on instance i in this step
StopCalled(i) == stopPc[i] = "none" /\ stopPc'[i] # "none"

\* C15 as stated: stop() on a stopped and drained scheduler leaves running
\* false, leaves processing, idle and the store as they are, and does not
\* invoke onStop.
C15_Original ==
  [][\A i \in Instances :
      (Drained(i) /\ StopCalled(i)) =>
        /\ ~running'[i]
        /\ processing' = processing /\ idle' = idle /\ store' = store
        /\ stopPc'[i] # "onStop"]_vars

\* chain c stands for a loop that is over
Over(c) == pc[c] \in {"none", "rejected"}

\* C16 as stated: a tick loop comes to life only by start() on an instance
\* that is not running, which sets running and invokes onStart first (the
\* tick is not run inside start()); and no claim is attempted by an instance
\* while an onStart of it is awaited.
C16_Original ==
  [][\A c \in Chains :
      /\ (Over(c) /\ ~Over(c)') =>
           /\ ~running[owner'[c]] /\ running'[owner'[c]]
           /\ pc'[c] = "onStart"
      /\ (pc[c] = "nextDelay" /\ pc'[c] = "txn") =>
           \A d \in Chains : owner[d] = owner[c] => pc[d] # "onStart"]_vars

\* no row of the table recurs
NonRecurring == \A r \in RowIds : store0[r].interval = IntervalNull

\* the number of claims made so far
Claims == BagCardinality(claimed)

\* row r of the table is deleted or written in this step
Touched(r) == r \notin DOMAIN store' \/ store'[r] # store[r]

\* C17: on one scheduler that keeps running, with callbacks that succeed and
\* a table without recurring rows: a row that is due is eventually passed to
\* onNewJob, a tick passes at most one row, and in the end no row is due,
\* every row that had a dueAt has been passed exactly once and the scheduler
\* is idle.
C17_AllProcessed ==
  /\ \A r \in RowIds :
       (NonRecurring /\ r \in Due(store, CurrentDate(now))) ~> (Calls(r) >= 1)
  /\ <>[](NonRecurring =>
            /\ Due(store, CurrentDate(now)) = {}
            /\ \A r \in RowIds : SeededDue(r) => (Calls(r) = 1 /\ ~Held(r))
            /\ idle[1])
  /\ [][/\ Claims' <= Claims + 1
        /\ (\E c \in Chains : Found(c)) <=> Claims' = Claims + 1
        /\ \A r, q \in DOMAIN store :
             (Touched(r) /\ Touched(q)) => r = q]_vars

\* C17 witness: in a table of two due one-shot rows each row has been passed
\* to onNewJob once, by two ticks, and the scheduler has gone idle.
C17_Witness ==
  /\ NonRecurring
  /\ \A r \in RowIds : SeededDue(r) /\ Calls(r) = 1 /\ ~Held(r)
  /\ idle[1]

\* loop c begins a checkNextAndLock in this step
Begins(c) == pc[c] = "nextDelay" /\ pc'[c] = "txn"

\* whole seconds in ms milliseconds, rounded down and rounded up
SecondsDown(ms) == ms \div 1000
SecondsUp(ms) == (ms + 999) \div 1000

\* C18 as stated: when the lock write of a checkNextAndLock reaches the
\* store, the stored row's dueAt becomes the lock value, and the row the call
\* returns carries the dueAt read before the lock, never the lock value.
C18_Original ==
  [][\A c \in Chains :
      Locked(c) =>
        /\ job'[c] = job[c]
        /\ job[c].id \in DOMAIN store =>
             store'[job[c].id].sleepUntil = lockStamp[c]
        /\ job'[c].sleepUntil # lockStamp[c]]_vars

\* C18 amended: checkNextAndLock computes the lock value from the clock it reads
\* first and currentDate from the clock it reads next; when findOne finds a
\* row, the update of that same transaction makes the stored row's dueAt the
\* lock value, the second of (the time read + lockDuration), and nothing
\* else changes in the store (a row deleted meanwhile stays deleted); the row
\* returned is the row as findOne read it: it carries the dueAt from before
\* the lock, which the lock write leaves alone (its number meets the lock
\* value only if the lock was computed in an earlier second than
\* currentDate), and it is that row the tick holds until rescheduleSleep has
\* used it.
C18_PreLock ==
  [][\A c \in Chains :
      /\ Begins(c) =>
           /\ lockStamp'[c] = FormatX(now + lockDuration)
           /\ currentDate'[c] = FormatX(now')
      /\ (Committed(c) /\ pc'[c] = "found") =>
           /\ job'[c].id \in DOMAIN store
           /\ job'[c] = Row(job'[c].id, store[job'[c].id])
           /\ store' = store
      /\ Locked(c) =>
           LET id == job[c].id
           IN /\ job'[c] = job[c]
              /\ job'[c].sleepUntil = lockStamp[c] =>
                   lockStamp[c] < currentDate[c]
              /\ lockStamp[c] + 1 >= currentDate[c] + SecondsDown(lockDuration)
              /\ lockStamp[c] <= currentDate[c] + SecondsUp(lockDuration)
              /\ DOMAIN store' = DOMAIN store
              /\ id \in DOMAIN store =>
                   store'[id] = [store[id] EXCEPT !.sleepUntil = lockStamp[c]]
              /\ \A q \in DOMAIN store \ {id} : store'[q] = store[q]
      /\ Found(c) => (job'[c] = job[c] /\ store' = store)
      /\ (Taken(c) /\ InFlight(c)') => job'[c] = job[c]]_vars

\* C18 witness: a tick holds a row whose stored dueAt is the lock, the
\* second after the one the call read (half a second rounded), while the row
\* it was handed carries the seeded dueAt.
C18_Witness ==
  \E c \in Chains :
    /\ InFlight(c)
    /\ lockDuration = 500
    /\ job[c].id \in DOMAIN store
    /\ store[job[c].id].sleepUntil = currentDate[c] + 1
    /\ job[c].sleepUntil = store0[job[c].id].sleepUntil
    /\ now > T0

\* row id is in both tables and differs at most in its dueAt
SameButDue(st, nx, id) ==
  /\ id \in DOMAIN st /\ id \in DOMAIN nx
  /\ nx[id] = [st[id] EXCEPT !.sleepUntil = nx[id].sleepUntil]

\* C19: a rescheduleSleep does one of three things to the row of the job it
\* was given, and nothing to any other row, as decided by the getNextStart
\* it called: with no next start and autoRemove the row is deleted; with no
\* next start and no autoRemove its dueAt becomes null; with a next start its
\* dueAt becomes that next start.  So a recurring autoRemove row is deleted
\* only when no occurrence is left up to its repeatUntil.  (A row that
\* another scheduler deleted meanwhile stays deleted.)
C19_Dispositions ==
  [][\A c \in Chains :
      /\ Issued(c) => (issued'[c] = FormatX(now) /\ store' = store)
      /\ Rescheduled(c) =>
           LET j == job[c]
               next == getNextStart(j, ParseX(issued[c]))
               here == j.id \in DOMAIN store
           IN /\ (next = NULL /\ j.autoRemove) => j.id \notin DOMAIN store'
              /\ (next = NULL /\ ~j.autoRemove /\ here) =>
                   (SameButDue(store, store', j.id)
                      /\ store'[j.id].sleepUntil = NULL)
              /\ (next # NULL /\ here) =>
                   (SameButDue(store, store', j.id)
                      /\ store'[j.id].sleepUntil = next)
              /\ ~here => j.id \notin DOMAIN store'
              /\ \A q \in DOMAIN store \ {j.id} :
                   q \in DOMAIN store' /\ store'[q] = store[q]
              /\ (Period(j.interval) > 0 /\ here /\ j.id \notin DOMAIN store')
                   => /\ j.autoRemove
                      /\ j.repeatUntil # NULL
                      /\ ((ParseX(j.sleepUntil) \div (Period(j.interval) * 1000))
                            + 1) * (Period(j.interval) * 1000) > j.repeatUntil]_vars

\* C19 witness: the recurring autoRemove row with a repeatUntil was run, kept
\* while an occurrence was left, run again and then deleted.
C19_Witness ==
  \E r \in RowIds :
    /\ SeededRecurring(r) /\ store0[r].autoRemove
    /\ store0[r].repeatUntil # NULL
    /\ Calls(r) = 2 /\ ~Held(r)
    /\ r \notin DOMAIN store
    /\ ~late

\* the occurrence that follows job j's pre-lock dueAt lies before the second
\* of clock value t: occurrences were missed
Missed(j, t) ==
  /\ Period(j.interval) > 0
  /\ j.sleepUntil + Period(j.interval) < FormatX(t)

\* C20: on one scheduler, when occurrences of a recurring row were missed,
\* getNextStart returns the second of the clock it reads (or nothing, past
\* repeatUntil), never an occurrence in the past; no rescheduleSleep of a
\* recurring row decides on a dueAt earlier than that second, and that dueAt
\* is what the store is given; and a recurring row is run at most once in any
\* second of the clock, however many occurrences it missed.
C20_CatchUp ==
  /\ [](\A r \in RowIds :
          SeededRecurring(r) => Calls(r) <= (FormatX(now) - StartSec) + 1)
  /\ [][\A c \in Chains :
          (Issued(c) /\ Period(job[c].interval) > 0) =>
            LET j == job[c]
                next == getNextStart(j, now)
            IN /\ issued'[c] = FormatX(now)
               /\ Missed(j, now) => next \in {NULL, FormatX(now)}
               /\ next # NULL => next >= FormatX(now)]_vars
  /\ [][\A c \in Chains :
          (Rescheduled(c) /\ Period(job[c].interval) > 0) =>
            LET j == job[c]
            IN (j.id \in DOMAIN store' /\ store'[j.id].sleepUntil # NULL) =>
                 /\ store'[j.id].sleepUntil
                      = getNextStart(j, ParseX(issued[c]))
                 /\ store'[j.id].sleepUntil >= issued[c]]_vars

\* C20 witness: the every-second row, seeded two seconds in the past, was
\* run once within the first second and is armed for that second, not for
\* the occurrence it missed.
C20_Witness ==
  \E r \in RowIds :
    /\ SeededRecurring(r) /\ store0[r].interval = EverySecond
    /\ store0[r].sleepUntil + 1 < StartSec
    /\ Calls(r) = 1 /\ ~Held(r)
    /\ FormatX(now) = StartSec
    /\ r \in DOMAIN store /\ store[r].sleepUntil = StartSec

\* C21: no step creates a row or changes a row's interval, repeatUntil or
\* autoRemove; a step changes at most one row, and only as the row whose
\* lock a transaction writes in that step (its dueAt becomes the lock value)
\* or as the row of the tick whose rescheduleSleep reaches the store in that
\* step (dueAt re-armed or null, or the row deleted); a step returns at most
\* one row, and a tick holds the one row it was returned until its
\* rescheduleSleep is over.
C21_Frame ==
  [][/\ DOMAIN store' \subseteq DOMAIN store
     /\ \A r \in DOMAIN store' : SameButDue(store, store', r)
     /\ \A r, q \in DOMAIN store : (Touched(r) /\ Touched(q)) => r = q
     /\ \A r \in DOMAIN store :
          Touched(r) =>
            \E c \in Chains :
              \/ /\ Locked(c) /\ job[c].id = r
                 /\ r \in DOMAIN store'
                 /\ store'[r].sleepUntil = lockStamp[c]
              \/ /\ Rescheduled(c) /\ job[c].id = r
                 /\ (r \in DOMAIN store' =>
                       store'[r].sleepUntil
                         \in {NULL, getNextStart(job[c], ParseX(issued[c]))})
     /\ \A c \in Chains : (Taken(c) /\ Taken(c)') => job'[c].id = job[c].id
     /\ Claims' <= Claims + 1]_vars

\* C21 witness: one row has been claimed, processed and re-armed, with its
\* other fields as seeded, while the other row still reads as seeded.
C21_Witness ==
  \E r, q \in DOMAIN store :
    /\ r # q
    /\ Calls(r) >= 1 /\ ~Held(r)
    /\ store[r].sleepUntil \notin {NULL, store0[r].sleepUntil}
    /\ store[r] = [store0[r] EXCEPT !.sleepUntil = store[r].sleepUntil]
    /\ Calls(q) = 0 /\ store[q] = store0[q]
    /\ ~late

\* loop c died holding a row, and the row still carries the lock c wrote
Orphan(c) ==
  /\ pc[c] = "dead" /\ job[c] # NoJob
  /\ job[c].id \in DOMAIN store
  /\ store[job[c].id].sleepUntil = lockStamp[c]

\* C22 as stated: a row claimed by a loop that died keeps the lock value
\* until the lock's second has passed, and until then no tick of another
\* instance is returned the row (read for runs in which no claim outlives
\* its lock and no callback raises).
C22_Original ==
  \A c \in Chains :
    (/\ ~late
     /\ pc[c] = "dead" /\ job[c] # NoJob
     /\ ~Elapsed(lockStamp[c], now)) =>
      /\ Orphan(c)
      /\ \A d \in Chains \ {c} : InFlight(d) => job[d].id # job[c].id

\* onNewJob raises in this step for the row loop c holds
Raised(c) == pc[c] = "onNewJob" /\ pc'[c] = "onError"

\* C23 as stated: when onNewJob raises for a claimed row before the lock of
\* that claim has elapsed, the row carries the lock value the claim wrote
\* (read for runs in which no claim outlived its lock and no callback raised
\* before).
C23_Original ==
  [][\A c \in Chains :
       (Raised(c) /\ ~late /\ ~Elapsed(lockStamp[c], now)) =>
         /\ job[c].id \in DOMAIN store'
         /\ store'[job[c].id].sleepUntil = lockStamp[c]]_vars

\* C24 as stated: after a stop() call, unless start() is called later, onStop
\* is eventually invoked (which happens with processing false only), also
\* when the tick in flight ended in onError.
C24_Original ==
  \A i \in Instances :
    (stopPc[i] # "none") ~>
      (running[i] \/ (stopPc[i] = "onStop" /\ ~processing[i]))

\* a step of stop() on instance i: the call, the end of a sleep, a queued
\* stop() or the end of onStop
StopStep(i) == stopPc'[i] # stopPc[i] \/ stopCall'[i] # stopCall[i]

\* C25: a loop begins checkNextAndLock only while its instance is running; a
\* step of stop() changes running, the stop's own position and nothing of the
\* loops or the store; a tick whose transaction is pending or that holds a
\* row goes on as if not stopped: findOne is answered, the lock is written
\* and the row returned, onNewJob is followed by rescheduleSleep, whose write
\* reaches the store before processing is reset (or one of them raises); and
\* when the instance is stopped and all its loops are over, with no claim
\* having outlived its lock and no callback having raised, every one-shot row
\* that was claimed is null or deleted: none is left locked.
C25_StopHalts ==
  /\ [][\A c \in Chains : Begins(c) => running[owner[c]]]_vars
  /\ [][\A i \in Instances :
          StopStep(i) =>
            /\ pc' = pc /\ job' = job /\ store' = store
            /\ processing' = processing /\ claimed' = claimed]_vars
  /\ [][\A c \in Chains :
          /\ (pc[c] = "txn" /\ pc'[c] # pc[c]) =>
               pc'[c] \in {"found", "empty", "onError"}
          /\ (pc[c] = "empty" /\ pc'[c] # pc[c]) =>
               (pc'[c] \in {"onIdle", "idleDelay"} /\ ~processing'[owner[c]])
          /\ (pc[c] = "found" /\ pc'[c] # pc[c]) =>
               pc'[c] \in {"locked", "onError"}
          /\ (pc[c] = "locked" /\ pc'[c] # pc[c]) => pc'[c] = "onNewJob"
          /\ (pc[c] = "onNewJob" /\ pc'[c] # pc[c]) =>
               pc'[c] \in {"resched", "onError"}
          /\ (pc[c] = "resched" /\ pc'[c] # pc[c]) =>
               \/ /\ pc'[c] = "written"
                  /\ store' =
                       rescheduleSleep(store, job[c], ParseX(issued[c]))
               \/ pc'[c] = "onError"
          /\ (pc[c] = "written" /\ pc'[c] # pc[c]) =>
               (pc'[c] = "scheduled" /\ ~processing'[owner[c]])]_vars
  /\ [](\A i \in Instances :
          (/\ ~running[i] /\ ~late
           /\ \A c \in Chains : Over(c)) =>
            \A r \in RowIds : (SeededOneShot(r) /\ Calls(r) >= 1) => NullOrGone(r))

\* C25 witness: stop() found a tick processing and is polling; that tick,
\* the only loop there was, has meanwhile finished its one-shot row, which
\* is null or deleted, and its rescheduled next tick has not run yet; the
\* other row, armed, has not been claimed.
C25_Witness ==
  \E c \in Chains, r, q \in RowIds :
    /\ ~running[1] /\ stopPc[1] = "sleep" /\ ~processing[1]
    /\ pc[c] = "scheduled" /\ owner[c] = 1
    /\ \A d \in Chains : d # c => pc[d] = "none"
    /\ SeededOneShot(r) /\ Calls(r) = 1 /\ NullOrGone(r)
    /\ q # r /\ Calls(q) = 0 /\ store0[q].sleepUntil # NULL
    /\ Claims = 1 /\ ~late

====
